---- MODULE Spec2Model ----
(***************************************************************************)
(* Model of the depth-first single cursor executor of promptyui            *)
(* (src/src/tree_executor.py, class TreeExecutor) driving the hook         *)
(* pipeline (src/src/hooks.py, HookPipeline.execute_hook).                 *)
(*                                                                         *)
(* Block paths ("0", "0.0", "1") are sequences of single digits, so the    *)
(* lexicographic order of the strings is the lexicographic order of the    *)
(* sequences.  None is the empty sequence.                                 *)
(***************************************************************************)
EXTENDS Integers, Sequences, FiniteSets, TLC

\* ------------------------------------------------------------------ bounds
MaxComp == 2     \* compositions of a root block range over 1..MaxComp
MaxStops == 1    \* stop() requests per behaviour
MaxArts == 1     \* artifacts a generate hook returns per composition
MaxDeps == 1     \* depends_on edges in the block table
MaxChild == 4    \* job records of the child block "0.0" in the job lists of SpecTables
MaxScripts == 2  \* scripts configured under one hook name
MaxConns == 3    \* connections the server handles at the same time
MaxPrompts == 2  \* prompts of a job document
MaxList == 2     \* entries of a samplers or resolutions list, values of a list parameter

\* ------------------------------------------------------------- block paths
None == <<>>
P0 == <<0>>
P00 == <<0, 0>>
P1 == <<1>>
AllPaths == {P0, P00, P1}

\* str.__lt__ on block paths
PathLess(a, b) ==
    \E i \in 1..Len(b) :
        /\ \A j \in 1..(i - 1) : j <= Len(a) /\ a[j] = b[j]
        /\ \/ i = Len(a) + 1
           \/ i <= Len(a) /\ a[i] < b[i]

\* sorted(S) for a set of block paths
RECURSIVE SortPaths(_)
SortPaths(S) ==
    IF S = {} THEN <<>>
    ELSE LET m == CHOOSE x \in S : \A y \in S \ {x} : PathLess(x, y)
         IN  <<m>> \o SortPaths(S \ {m})

\* rp.startswith(p + '.') or rp == p
StartsWithOrEq(rp, p) ==
    /\ Len(p) <= Len(rp)
    /\ \A j \in 1..Len(p) : rp[j] = p[j]

SeqToSet(s) == {s[i] : i \in 1..Len(s)}

\* [x for x in order if x in S]
RECURSIVE FilterSeq(_, _)
FilterSeq(order, S) ==
    IF order = <<>> THEN <<>>
    ELSE (IF Head(order) \in S THEN <<Head(order)>> ELSE <<>>)
         \o FilterSeq(Tail(order), S)

\* --------------------------------------------------------- hooks and states
BlockHooks == {"node_start", "resolve", "node_end"}
StageHooks == {"pre", "generate", "post"}
HookNames == BlockHooks \cup StageHooks

IDLE == "idle"
RUNNING == "running"
PAUSED == "paused"
COMPLETE == "complete"
FAILED == "failed"
BLOCKED == "blocked"
Unset == "unset"     \* block_path has no key in self.block_states

\* ---------------------------------------------------------------- artifacts
\* Values of an artifact's text fields: a key the dict does not have, the
\* empty string, or a non-empty string (which names the artifact it is of).
Absent == <<"absent">>
EmptyStr == <<"">>
Falsy(v) == v = Absent \/ v = EmptyStr

\* d.get(key, default)
Get(v, default) == IF v = Absent THEN default ELSE v

\* Shapes of the artifact dicts a generate script returns: which of mod_id,
\* content, preview and content_bytes it sets.
TextShape ==
    [mod_id |-> <<"text_writer">>, content |-> "text", preview |-> "text", binary |-> FALSE]
ArtShapes ==
    {TextShape,
     [mod_id |-> Absent, content |-> "absent", preview |-> "text", binary |-> FALSE],
     [mod_id |-> Absent, content |-> "empty", preview |-> "text", binary |-> FALSE],
     [mod_id |-> Absent, content |-> "absent", preview |-> "absent", binary |-> FALSE],
     [mod_id |-> Absent, content |-> "text", preview |-> "absent", binary |-> FALSE],
     [mod_id |-> Absent, content |-> "absent", preview |-> "absent", binary |-> TRUE]}

\* the string a script puts under a text key of artifact k of (bp, idx)
FieldValue(how, key, bp, idx, k) ==
    IF how = "absent" THEN Absent
    ELSE IF how = "empty" THEN EmptyStr
    ELSE <<key, bp, idx, k>>

\* the hook context before the first composition: no ctx yet
NoCtx == <<>>

VARIABLES
    blocks,                 \* self.blocks: path -> [parent_path, depends_on, compositions]
    block_order,            \* self.blocks: its keys in insertion order (first job of each block)
    failing,                \* hook scripts: the (hook, block, idx) that return status error
    arts_per_comp,          \* hook scripts: artifacts in the data of every generate result
    art_shape,              \* hook scripts: composition idx -> shape of those artifacts
    run_output_path,        \* the output_path argument of the constructor is a job directory
    unwritable,             \* file system: the paths whose opening for writing raises OSError
    set_order,              \* interpreter: the order in which the set root_paths iterates
    queue,                  \* self.queue
    queue_position,         \* self.queue_position
    state,                  \* self._state
    visited_blocks,         \* self.visited_blocks
    failed_blocks,          \* self.failed_blocks
    blocked_blocks,         \* self.blocked_blocks
    block_states,           \* self.block_states
    block_completed,        \* self.block_completed
    resolve_cache,          \* self.resolve_cache: path -> data of the cached HookResult
    variation_results,      \* self.variation_results: <<path, idx>> -> status
    completed_compositions, \* self.completed_compositions
    stop_requested,         \* self.stop_requested
    output_path,            \* self.output_path is set (a job directory)
    block_artifacts,        \* self.block_artifacts: path -> sequence of artifacts
    composition_failed,     \* local of execute()
    composition_data,       \* local of execute(): artifacts accumulated by the stages
    ctx,                    \* local of execute(): the hook context of the composition
    in_run,                 \* execute() was called by EventStream.run(), not directly or by resume()
    files,                  \* output_path/_artifacts: file path -> content
    manifest,               \* output_path/_artifacts/manifest.json: <<>> or <<document>>
    pc,                     \* position of the caller's thread in execute()
    events,                 \* history: events passed to on_progress, in order
    hook_calls,             \* history: pipeline.execute_hook invocations, in order
    stop_log,               \* history: where the executor was at each stop() request
    hooks_config,           \* HookPipeline.hooks_config: hook name -> its scripts, in order
    hook_run,               \* a composition run through HookPipeline: ctx, stage, calls
    active_executors,       \* pipeline.py _active_executors: job_id -> executor
    handlers,               \* server: connection -> the request its thread handles
    stop_flags,             \* server: the executors whose stop_requested is set
    job_document,           \* build_jobs: the prompts and samplers_config it is given
    job_list                \* build_jobs: whether it has returned, and the list returned

vars == <<blocks, block_order, failing, arts_per_comp, art_shape, run_output_path,
          unwritable, set_order,
          queue, queue_position, state,
          visited_blocks, failed_blocks, blocked_blocks, block_states,
          block_completed, resolve_cache, variation_results,
          completed_compositions, stop_requested, output_path, block_artifacts,
          composition_failed, composition_data, ctx, in_run, files, manifest,
          pc, events, hook_calls, stop_log,
          hooks_config, hook_run, active_executors, handlers, stop_flags,
          job_document, job_list>>

\* the variables of the components beside the executor
Aside == <<hooks_config, hook_run, active_executors, handlers, stop_flags,
          job_document, job_list>>

\* ------------------------------------------------------------- build_queue
Children(B, bp) == {p \in DOMAIN B : B[p].parent_path = bp}

\* enqueue_subtree(block_path, idx, parent_key)
RECURSIVE EnqueueSubtree(_, _, _, _)
RECURSIVE EnqueueChildren(_, _, _, _)
RECURSIVE EnqueueRange(_, _, _, _, _, _)
\* enqueue_subtree appending the entry after the entries of its children
EnqueueSubtree_ChildrenFirst(B, bp, idx, parent_key) ==
    EnqueueChildren(B, bp, idx, SortPaths(Children(B, bp)))
    \o <<[block_path |-> bp, composition_idx |-> idx, parent_key |-> parent_key]>>

EnqueueSubtree(B, bp, idx, parent_key) ==
    <<[block_path |-> bp, composition_idx |-> idx, parent_key |-> parent_key]>>
    \o EnqueueChildren(B, bp, idx, SortPaths(Children(B, bp)))

\* for child in sorted(children, key=path)
EnqueueChildren(B, bp, idx, kids) ==
    IF kids = <<>> THEN <<>>
    ELSE LET child == Head(kids)
             cpp == IF B[bp].compositions > 0
                    THEN B[child].compositions \div B[bp].compositions
                    ELSE 0
         IN  EnqueueRange(B, bp, idx, child, cpp, 0)
             \o EnqueueChildren(B, bp, idx, Tail(kids))

\* for c in range(child_comps_per_parent)
EnqueueRange(B, bp, idx, child, cpp, c) ==
    IF c >= cpp THEN <<>>
    ELSE LET child_idx == idx * cpp + c
         IN  (IF child_idx < B[child].compositions
              THEN EnqueueSubtree(B, child, child_idx, <<bp, idx>>)
              ELSE <<>>)
             \o EnqueueRange(B, bp, idx, child, cpp, c + 1)

\* find_root_for(dep_path) inside _topo_sort_roots; None when nothing matches.
\* "for rp in root_paths" iterates a set of str, whose order depends on the
\* hash seed of the process: order is that iteration order, and the loop
\* returns the first root in it that has the candidate as a prefix.
RECURSIVE FindRootWalk(_, _, _)
FindRootWalk(root_paths, parts, order) ==
    IF parts = <<>> THEN None
    ELSE IF parts \in root_paths THEN parts
    ELSE LET m == FilterSeq(order, {rp \in root_paths : StartsWithOrEq(rp, parts)})
         IN  IF m # <<>> THEN Head(m)
             ELSE FindRootWalk(root_paths, SubSeq(parts, 1, Len(parts) - 1), order)

find_root_for(root_paths, dep_path, order) ==
    IF dep_path \in root_paths THEN dep_path
    ELSE FindRootWalk(root_paths, dep_path, order)

\* Kahn's algorithm; ready is kept sorted by the code, so it is a set here
\* and pop(0) takes its least element.
RECURSIVE Kahn(_, _, _)
Kahn(deps, ready, result) ==
    IF ready = {} THEN result
    ELSE LET node == Head(SortPaths(ready))
             deps2 == [rp \in DOMAIN deps |-> deps[rp] \ {node}]
             freed == {rp \in DOMAIN deps : node \in deps[rp] /\ deps2[rp] = {}}
         IN  Kahn(deps2, (ready \ {node}) \cup freed, Append(result, node))

\* _topo_sort_roots(roots): the root paths in execution order
topo_sort_roots(B, roots, order) ==
    LET deps == [r \in roots |->
                   {t \in roots : /\ t # r
                                  /\ \E d \in SeqToSet(B[r].depends_on) :
                                        find_root_for(roots, d, order) = t}]
        result == Kahn(deps, {r \in roots : deps[r] = {}}, <<>>)
    IN  IF Len(result) < Cardinality(roots) THEN SortPaths(roots) ELSE result

RECURSIVE EnqueueRoots(_, _)
RECURSIVE EnqueueRootComps(_, _, _)
EnqueueRootComps(B, root, i) ==
    IF i >= B[root].compositions THEN <<>>
    ELSE EnqueueSubtree(B, root, i, None) \o EnqueueRootComps(B, root, i + 1)

EnqueueRoots(B, roots) ==
    IF roots = <<>> THEN <<>>
    ELSE EnqueueRootComps(B, Head(roots), 0) \o EnqueueRoots(B, Tail(roots))

\* build_queue()
Roots(B) ==
    {p \in DOMAIN B : B[p].parent_path = None \/ B[p].parent_path \notin DOMAIN B}

\* the orders in which a set can iterate
IterationOrders(S) ==
    {o \in [1..Cardinality(S) -> S] : \A i, j \in DOMAIN o : i # j => o[i] # o[j]}

build_queue(B, order) == EnqueueRoots(B, topo_sort_roots(B, Roots(B), order))


\* ------------------------------------------------------------ hook scripts
\* pipeline.execute_hook(hook, ctx) for the composition (bp, idx): the
\* HookResult the configured scripts produce.  success is HookResult.success,
\* artifacts the length of data['artifacts'].
HookResult(hook, bp, idx) ==
    [success |-> <<hook, bp, idx>> \notin failing,
     data |-> <<"data", hook, bp, idx>>,
     artifacts |-> IF hook = "generate" /\ <<hook, bp, idx>> \notin failing
                   THEN arts_per_comp ELSE 0]

\* ------------------------------------------------------- executor as record
Cur ==
    [queue |-> queue, queue_position |-> queue_position, state |-> state,
     visited_blocks |-> visited_blocks, failed_blocks |-> failed_blocks,
     blocked_blocks |-> blocked_blocks, block_states |-> block_states,
     block_completed |-> block_completed, resolve_cache |-> resolve_cache,
     variation_results |-> variation_results,
     completed_compositions |-> completed_compositions,
     stop_requested |-> stop_requested, output_path |-> output_path,
     block_artifacts |-> block_artifacts,
     composition_failed |-> composition_failed,
     composition_data |-> composition_data, ctx |-> ctx, in_run |-> in_run,
     files |-> files, manifest |-> manifest, pc |-> pc,
     events |-> events, hook_calls |-> hook_calls]

Apply(e) ==
    /\ queue' = e.queue
    /\ queue_position' = e.queue_position
    /\ state' = e.state
    /\ visited_blocks' = e.visited_blocks
    /\ failed_blocks' = e.failed_blocks
    /\ blocked_blocks' = e.blocked_blocks
    /\ block_states' = e.block_states
    /\ block_completed' = e.block_completed
    /\ resolve_cache' = e.resolve_cache
    /\ variation_results' = e.variation_results
    /\ completed_compositions' = e.completed_compositions
    /\ stop_requested' = e.stop_requested
    /\ output_path' = e.output_path
    /\ block_artifacts' = e.block_artifacts
    /\ composition_failed' = e.composition_failed
    /\ composition_data' = e.composition_data
    /\ ctx' = e.ctx
    /\ in_run' = e.in_run
    /\ files' = e.files
    /\ manifest' = e.manifest
    /\ pc' = e.pc
    /\ events' = e.events
    /\ hook_calls' = e.hook_calls

\* TreeExecutor.__init__
NewExecutor ==
    [queue |-> <<>>, queue_position |-> 0, state |-> IDLE,
     visited_blocks |-> {}, failed_blocks |-> {}, blocked_blocks |-> {},
     block_states |-> [p \in AllPaths |-> Unset],
     block_completed |-> [p \in AllPaths |-> 0],
     resolve_cache |-> [p \in {} |-> <<>>],
     variation_results |-> [k \in {} |-> Unset],
     completed_compositions |-> 0, stop_requested |-> FALSE,
     output_path |-> run_output_path,
     block_artifacts |-> [p \in AllPaths |-> <<>>],
     composition_failed |-> FALSE, composition_data |-> 0,
     ctx |-> NoCtx, in_run |-> TRUE,
     files |-> [f \in {} |-> <<>>], manifest |-> <<>>, pc |-> "idle",
     events |-> <<>>, hook_calls |-> <<>>]

\* self._emit(event_type, *args)
Emit(e, ev) == [e EXCEPT !.events = Append(@, ev)]

RECURSIVE EmitAll(_, _)
EmitAll(e, evs) ==
    IF evs = <<>> THEN e ELSE EmitAll(Emit(e, Head(evs)), Tail(evs))

\* the call self.pipeline.execute_hook(hook, ctx)
CallHook(e, hook, bp, idx) ==
    [e EXCEPT !.hook_calls = Append(@, <<hook, bp, idx>>)]

Entry(e) == e.queue[e.queue_position + 1]

Advance(e) == [e EXCEPT !.queue_position = @ + 1, !.pc = "loop"]

\* dict key assignment d[k] = v
Put(f, k, v) == [x \in DOMAIN f \cup {k} |-> IF x = k THEN v ELSE f[x]]

\* ---------------------------------------------------------- _handle_failure
Dependents(bp) == {p \in DOMAIN blocks : bp \in SeqToSet(blocks[p].depends_on)}

\* children + dependents, each in the order of self.blocks.values()
CascadeTargets(bp) ==
    FilterSeq(block_order, Children(blocks, bp))
    \o FilterSeq(block_order, Dependents(bp))

\* cascade(failed_path): acc = [blocked: set, order: newly blocked, in order]
RECURSIVE CascadeList(_, _)
CascadeList(acc, list) ==
    IF list = <<>> THEN acc
    ELSE LET b == Head(list)
         IN  IF b \in acc.blocked
             THEN CascadeList(acc, Tail(list))
             ELSE CascadeList(
                    CascadeList([blocked |-> acc.blocked \cup {b},
                                 order |-> Append(acc.order, b)],
                                CascadeTargets(b)),
                    Tail(list))

cascade(blocked, failed_path) ==
    CascadeList([blocked |-> blocked, order |-> <<>>], CascadeTargets(failed_path))

RECURSIVE MarkBlocked(_, _)
MarkBlocked(e, order) ==
    IF order = <<>> THEN e
    ELSE MarkBlocked(
           Emit([e EXCEPT !.blocked_blocks = @ \cup {Head(order)},
                          !.block_states[Head(order)] = BLOCKED],
                <<"block_blocked", Head(order)>>),
           Tail(order))

handle_failure(e, bp, idx) ==
    LET e1 == Emit([e EXCEPT !.failed_blocks = @ \cup {bp},
                             !.block_states[bp] = FAILED,
                             !.variation_results = Put(@, <<bp, idx>>, "error")],
                   <<"block_failed", bp>>)
    IN  MarkBlocked(e1, cascade(e1.blocked_blocks, bp).order)


\* ------------------------------------------------------------------ execute
\* execute(), entry: build the queue on first use, state RUNNING
ExecuteEnter(e) ==
    [e EXCEPT !.queue = IF @ = <<>> THEN build_queue(blocks, set_order) ELSE @,
              !.state = RUNNING,
              !.pc = "loop"]

\* the hook context with parent_result looked up under the composition's own
\* key instead of its parent_key
BuildCtx_OwnKey(e) ==
    LET own_key == <<Entry(e).block_path, Entry(e).composition_idx>>
    IN  [block_path |-> Entry(e).block_path,
         composition_index |-> Entry(e).composition_idx,
         parent_result |-> IF Entry(e).parent_key # None /\ own_key \in DOMAIN e.variation_results
                           THEN e.variation_results[own_key]
                           ELSE "none",
         upstream_artifacts |->
             [p \in {q \in AllPaths : e.block_artifacts[q] # <<>>} |-> e.block_artifacts[p]],
         block_states |-> e.block_states,
         block_completed |-> e.block_completed,
         resolve_data |-> Absent]

\* lines 316-334: the hook context of the composition at the cursor
BuildCtx(e) ==
    LET parent_key == Entry(e).parent_key
    IN  [block_path |-> Entry(e).block_path,
         composition_index |-> Entry(e).composition_idx,
         parent_result |-> IF parent_key # None /\ parent_key \in DOMAIN e.variation_results
                           THEN e.variation_results[parent_key]
                           ELSE "none",
         upstream_artifacts |->
             [p \in {q \in AllPaths : e.block_artifacts[q] # <<>>} |-> e.block_artifacts[p]],
         block_states |-> e.block_states,
         block_completed |-> e.block_completed,
         resolve_data |-> Absent]

\* lines 357-366: inject cached resolve data, reset the per-composition locals
BeginStages(e) ==
    LET bp == Entry(e).block_path
    IN  [e EXCEPT !.ctx.resolve_data = IF bp \in DOMAIN e.resolve_cache
                                       THEN e.resolve_cache[bp] ELSE @,
                  !.composition_failed = FALSE, !.composition_data = 0, !.pc = "pre"]

\* One evaluation of the while condition and, when it holds, the body up to
\* the first hook call (skip checks, context, block_start).
LoopStep(e) ==
    IF ~(e.queue_position < Len(e.queue) /\ ~e.stop_requested)
    THEN [e EXCEPT !.pc = "final"]
    ELSE
    LET bp == Entry(e).block_path
        parent_key == Entry(e).parent_key
        block == blocks[bp]
        block_it == Emit([e EXCEPT !.blocked_blocks = @ \cup {bp},
                                   !.block_states[bp] = BLOCKED],
                         <<"block_blocked", bp>>)
    IN  IF bp \in e.failed_blocks \/ bp \in e.blocked_blocks
        THEN Advance(e)
        ELSE IF parent_key # None /\ parent_key[1] \in e.failed_blocks
        THEN Advance(block_it)
        ELSE IF /\ block.depends_on # <<>>
                /\ bp \notin e.visited_blocks
                /\ \E d \in SeqToSet(block.depends_on) : d \in e.failed_blocks
        THEN Advance(block_it)
        ELSE IF bp \notin e.visited_blocks
        THEN Emit([e EXCEPT !.ctx = BuildCtx(e),
                            !.visited_blocks = @ \cup {bp},
                            !.block_states[bp] = RUNNING,
                            !.pc = "node_start"],
                  <<"block_start", bp>>)
        ELSE BeginStages([e EXCEPT !.ctx = BuildCtx(e)])

\* lines 342-346: node_start hook, then the stop check; the result's status
\* is not examined
NodeStartStep(e) ==
    LET e1 == CallHook(e, "node_start", Entry(e).block_path, Entry(e).composition_idx)
    IN  IF e1.stop_requested THEN [e1 EXCEPT !.pc = "final"]
        ELSE [e1 EXCEPT !.pc = "resolve"]

\* lines 348-355: resolve hook, stop check, failure check, cache
ResolveStep(e) ==
    LET bp == Entry(e).block_path
        idx == Entry(e).composition_idx
        result == HookResult("resolve", bp, idx)
        e1 == CallHook(e, "resolve", bp, idx)
    IN  IF e1.stop_requested THEN [e1 EXCEPT !.pc = "final"]
        ELSE IF ~result.success THEN Advance(handle_failure(e1, bp, idx))
        ELSE BeginStages([e1 EXCEPT !.resolve_cache = Put(@, bp, result.data)])

NextStage(stage) ==
    IF stage = "pre" THEN "generate"
    ELSE IF stage = "generate" THEN "post"
    ELSE "after_stages"

\* lines 367-380: one iteration of  for stage in ('pre', 'generate', 'post')
StageStep(e, stage) ==
    LET bp == Entry(e).block_path
        idx == Entry(e).composition_idx
        result == HookResult(stage, bp, idx)
        e1 == CallHook(e, stage, bp, idx)
    IN  IF e1.stop_requested THEN [e1 EXCEPT !.pc = "after_stages"]
        ELSE IF ~result.success
        THEN [handle_failure(e1, bp, idx) EXCEPT !.composition_failed = TRUE,
                                                 !.pc = "after_stages"]
        ELSE [e1 EXCEPT !.composition_data =
                            IF result.artifacts > 0 THEN result.artifacts ELSE @,
                        !.pc = NextStage(stage)]

\* the artifacts of one composition, stamped with composition_idx, block_path
NewArtifacts(bp, idx, n) ==
    [k \in 1..n |->
        [block_path |-> bp, composition_idx |-> idx, k |-> k,
         name |-> <<"name", bp, idx, k>>,
         mod_id |-> art_shape[idx].mod_id,
         content |-> FieldValue(art_shape[idx].content, "content", bp, idx, k),
         preview |-> FieldValue(art_shape[idx].preview, "preview", bp, idx, k),
         binary |-> art_shape[idx].binary,
         disk_path |-> Absent, disk_line |-> None]]

ArtifactEvents(bp, idx, n) ==
    [k \in 1..n |-> <<"artifact", bp, idx, k>>]

\* AfterStagesStep with the stop check after the composition is recorded
AfterStagesStep_StopAfterRecord(e) ==
    LET bp == Entry(e).block_path
        idx == Entry(e).composition_idx
        n == e.composition_data
        e1 == EmitAll([e EXCEPT !.block_artifacts[bp] = @ \o NewArtifacts(bp, idx, n)],
                      ArtifactEvents(bp, idx, n))
        e2 == Emit([e1 EXCEPT !.block_completed[bp] = @ + 1,
                              !.completed_compositions = @ + 1,
                              !.composition_data = 0,
                              !.variation_results = Put(@, <<bp, idx>>, "success")],
                   <<"composition_complete", bp, idx>>)
    IN  IF e.composition_failed
        THEN (IF e.stop_requested THEN [e EXCEPT !.pc = "final"] ELSE Advance(e))
        ELSE IF e.stop_requested THEN [e2 EXCEPT !.pc = "final"]
        ELSE IF e2.block_completed[bp] = blocks[bp].compositions
        THEN [e2 EXCEPT !.pc = "node_end"]
        ELSE Advance(e2)

\* lines 382-406 and 425: stop check, record the composition, advance
AfterStagesStep(e) ==
    LET bp == Entry(e).block_path
        idx == Entry(e).composition_idx
        n == e.composition_data
        e1 == EmitAll([e EXCEPT !.block_artifacts[bp] = @ \o NewArtifacts(bp, idx, n)],
                      ArtifactEvents(bp, idx, n))
        e2 == Emit([e1 EXCEPT !.block_completed[bp] = @ + 1,
                              !.completed_compositions = @ + 1,
                              !.composition_data = 0,
                              !.variation_results = Put(@, <<bp, idx>>, "success")],
                   <<"composition_complete", bp, idx>>)
    IN  IF e.stop_requested THEN [e EXCEPT !.pc = "final"]
        ELSE IF e.composition_failed THEN Advance(e)
        ELSE IF e2.block_completed[bp] = blocks[bp].compositions
        THEN [e2 EXCEPT !.pc = "node_end"]
        ELSE Advance(e2)

\* ------------------------------------------------------------ artifact store
\* artifact.get('mod_id', '_unknown')
ModDir(a) == Get(a.mod_id, <<"_unknown">>)

\* _artifacts/{mod_id}/{block_path}.jsonl, relative to output_path
JsonlPath(m, bp) == <<"_artifacts", m, bp, <<"jsonl">> >>

\* _artifacts/{mod_id}/{block_path}/{name}
BinPath(m, bp, name) == <<"_artifacts", m, bp, name>>

\* _artifacts/manifest.json
ManifestPath == <<"_artifacts", <<"manifest">>, <<>>, <<"json">> >>

\* text_arts of one mod_id group: the artifacts without content_bytes, in order
RECURSIVE TextOfMod(_, _)
TextOfMod(arts, m) ==
    IF arts = <<>> THEN <<>>
    ELSE (IF ~Head(arts).binary /\ ModDir(Head(arts)) = m THEN <<Head(arts)>> ELSE <<>>)
         \o TextOfMod(Tail(arts), m)

\* the JSON object written for a text artifact; content is a string, which
\* str() leaves as it is, and json.dumps keeps the object on one line
LineOf(a) ==
    [composition_idx |-> a.composition_idx,
     name |-> Get(a.name, EmptyStr),
     content |-> IF Falsy(a.content) THEN Get(a.preview, EmptyStr) ELSE a.content]

\* DiskLine counting every artifact of the block, whatever its group
DiskLine_IndexInBlock(arts, j) == j - 1

\* i of enumerate(text_arts) for the j-th artifact of the block
DiskLine(arts, j) == Len(TextOfMod(SubSeq(arts, 1, j - 1), ModDir(arts[j])))

\* the locator fields set on the j-th artifact of block bp; disk_line is
\* <<i>> once set and None before
Located(arts, bp, j) ==
    IF arts[j].binary
    THEN [arts[j] EXCEPT !.disk_path = BinPath(ModDir(arts[j]), bp, arts[j].name)]
    ELSE [arts[j] EXCEPT !.disk_path = JsonlPath(ModDir(arts[j]), bp),
                         !.disk_line = <<DiskLine(arts, j)>>]

\* by_mod: the mod_id groups in the order of their first artifact
RECURSIVE Mods(_)
Mods(arts) ==
    IF arts = <<>> THEN <<>>
    ELSE LET m == ModDir(Head(arts))
             NotM(x) == x # m
         IN  <<m>> \o SelectSeq(Mods(Tail(arts)), NotM)

\* the write_bytes calls of group m, from the j-th artifact on
RECURSIVE BinWrites(_, _, _, _)
BinWrites(arts, bp, m, j) ==
    IF j > Len(arts) THEN <<>>
    ELSE (IF arts[j].binary /\ ModDir(arts[j]) = m
          THEN <<[path |-> BinPath(m, bp, arts[j].name), arts |-> {j}]>>
          ELSE <<>>)
         \o BinWrites(arts, bp, m, j + 1)

\* the files group m opens, in order: its binary files, then its JSONL file
ModWrites(arts, bp, m) ==
    LET text == {j \in DOMAIN arts : ~arts[j].binary /\ ModDir(arts[j]) = m}
    IN  BinWrites(arts, bp, m, 1)
        \o (IF text # {} THEN <<[path |-> JsonlPath(m, bp), arts |-> text]>> ELSE <<>>)

RECURSIVE FlushWrites(_, _, _)
FlushWrites(arts, bp, mods) ==
    IF mods = <<>> THEN <<>>
    ELSE ModWrites(arts, bp, Head(mods)) \o FlushWrites(arts, bp, Tail(mods))

\* how far the flush gets: the artifacts written before the first path that
\* cannot be opened, and whether there is such a path (no try/except around
\* write_bytes and open, so the OSError leaves _flush_block_artifacts)
Written(arts, bp) ==
    LET w == FlushWrites(arts, bp, Mods(arts))
        bad == {i \in DOMAIN w : w[i].path \in unwritable}
        n == IF bad = {} THEN Len(w)
             ELSE (CHOOSE i \in bad : \A k \in bad : i <= k) - 1
    IN  [done |-> UNION {w[i].arts : i \in 1..n}, failed |-> bad # {}]

\* the files _flush_block_artifacts writes for the artifacts in done: one
\* JSONL file per mod_id group with text artifacts (opened with 'w'), one
\* file per binary artifact
FlushedFiles(fs, arts, bp, done) ==
    LET idx == done
        jsonl == {JsonlPath(ModDir(arts[j]), bp) : j \in {i \in idx : ~arts[i].binary}}
        bin == {BinPath(ModDir(arts[j]), bp, arts[j].name) : j \in {i \in idx : arts[i].binary}}
    IN  [f \in DOMAIN fs \cup jsonl \cup bin |->
            IF f \in jsonl
            THEN LET text_arts == TextOfMod(arts, f[2])
                 IN  [i \in DOMAIN text_arts |-> LineOf(text_arts[i])]
            ELSE IF f \in bin THEN <<"content_bytes", f[4]>>
            ELSE fs[f]]

\* json.dumps(manifest): bytes under content_bytes are not JSON serializable
Serializable(e) ==
    \A p \in AllPaths : \A j \in DOMAIN e.block_artifacts[p] :
        ~e.block_artifacts[p][j].binary

\* _write_manifest(): nothing without artifacts or output_path; TypeError out
\* of json.dumps, before the file is touched, when an artifact is binary;
\* OSError out of write_text when the file cannot be opened
_write_manifest(e) ==
    LET keys == {p \in AllPaths : e.block_artifacts[p] # <<>>}
        doc == [blocks_complete |->
                    Cardinality({p \in AllPaths : e.block_states[p] = COMPLETE}),
                blocks_total |-> Cardinality(DOMAIN blocks),
                blocks |-> [p \in keys |->
                              [artifacts |-> e.block_artifacts[p],
                               count |-> Len(e.block_artifacts[p]),
                               depends_on |-> blocks[p].depends_on,
                               composition_total |-> blocks[p].compositions]]]
    IN  IF keys = {} \/ ~e.output_path THEN e
        ELSE IF ~Serializable(e) \/ ManifestPath \in unwritable
        THEN [e EXCEPT !.pc = "raised"]
        ELSE [e EXCEPT !.manifest = <<doc>>]

\* write_manifest(output_path), the public call: it sets self.output_path
\* and writes the manifest
write_manifest(e, path) == _write_manifest([e EXCEPT !.output_path = path])

\* the list upstream_artifacts[bp] of a context: line 329 copies the list
\* self.block_artifacts[bp], not the artifact dicts in it, so its j-th
\* element is the j-th dict of the block, whatever has been set on that since
SharedArtifacts(context, B) ==
    IF context = NoCtx THEN context
    ELSE [context EXCEPT !.upstream_artifacts =
             [p \in DOMAIN @ |-> [j \in DOMAIN @[p] |-> B[p][j]]]]

\* _flush_block_artifacts(block_path): write the files, set the locator
\* fields on the artifact dicts (which the context of the composition that
\* is running shares), rewrite the manifest; an exception of a write leaves
\* it at once
flush_block_artifacts(e, bp) ==
    LET arts == e.block_artifacts[bp]
        w == Written(arts, bp)
        located == [e.block_artifacts EXCEPT ![bp] =
                       [j \in DOMAIN arts |->
                           IF j \in w.done THEN Located(arts, bp, j) ELSE arts[j]]]
        e1 == [e EXCEPT !.files = FlushedFiles(@, arts, bp, w.done),
                        !.block_artifacts = located,
                        !.ctx = SharedArtifacts(@, located)]
    IN  IF ~e.output_path \/ arts = <<>> THEN e
        ELSE IF w.failed THEN [e1 EXCEPT !.pc = "raised"]
        ELSE _write_manifest(e1)

\* ConsumedEvents with one event per artifact for each dependent
ConsumedEvents_PerArtifact(bp, n) ==
    LET deps == FilterSeq(block_order, Dependents(bp))
    IN  [i \in 1..(Len(deps) * n) |->
            <<"artifact_consumed", deps[((i - 1) \div n) + 1], bp, n>>]

\* lines 414-421: one artifact_consumed event per block whose depends_on
\* holds bp, in block table order, carrying the artifact count
ConsumedEvents(bp, n) ==
    LET deps == FilterSeq(block_order, Dependents(bp))
    IN  [i \in 1..Len(deps) |-> <<"artifact_consumed", deps[i], bp, n>>]

\* lines 407-425: node_end hook (result discarded), block complete, flush,
\* advance; an exception of the flush leaves execute() at once
NodeEndStep(e) ==
    LET bp == Entry(e).block_path
        idx == Entry(e).composition_idx
        e1 == [CallHook(e, "node_end", bp, idx) EXCEPT !.block_states[bp] = COMPLETE]
        e2 == IF e1.block_artifacts[bp] # <<>> /\ e1.output_path
              THEN flush_block_artifacts(e1, bp)
              ELSE e1
        e3 == IF e2.block_artifacts[bp] # <<>>
              THEN EmitAll(e2, ConsumedEvents(bp, Len(e2.block_artifacts[bp])))
              ELSE e2
    IN  IF e2.pc = "raised" THEN e2
        ELSE Advance(Emit(e3, <<"block_complete", bp>>))

\* lines 427-433
FinalizeStep(e) ==
    [e EXCEPT !.state = IF e.stop_requested THEN PAUSED
                        ELSE IF e.failed_blocks # {} THEN FAILED
                        ELSE COMPLETE,
              !.pc = "done"]

\* execute() returns: to EventStream.run(), which writes the manifest once
\* more (event_stream.py lines 96-98), or to the caller of resume()
ReturnStep(e) ==
    LET e1 == FinalizeStep(e)
    IN  IF e1.in_run /\ run_output_path /\ \E p \in AllPaths : e1.block_artifacts[p] # <<>>
        THEN write_manifest(e1, run_output_path)
        ELSE e1

\* stop() that takes the executor out of its loop at once
stop_Immediate(e) == [e EXCEPT !.stop_requested = TRUE, !.pc = "final"]

\* stop()
stop(e) == [e EXCEPT !.stop_requested = TRUE]

\* resume()
resume(e) == ExecuteEnter([e EXCEPT !.stop_requested = FALSE, !.in_run = FALSE])

\* the step the caller's thread takes at e.pc
Step(e) ==
    CASE e.pc = "idle" -> ExecuteEnter(e)
      [] e.pc = "loop" -> LoopStep(e)
      [] e.pc = "node_start" -> NodeStartStep(e)
      [] e.pc = "resolve" -> ResolveStep(e)
      [] e.pc \in StageHooks -> StageStep(e, e.pc)
      [] e.pc = "after_stages" -> AfterStagesStep(e)
      [] e.pc = "node_end" -> NodeEndStep(e)
      [] e.pc = "final" -> ReturnStep(e)
      [] OTHER -> e

\* ------------------------------------------------- hook pipeline (hooks.py)
\* dict.update and {**f, **g}
Update(f, g) == [x \in DOMAIN f \cup DOMAIN g |-> IF x \in DOMAIN g THEN g[x] ELSE f[x]]

EmptyDict == [x \in {} |-> <<>>]

\* What the execute(context, params) of a script does:
\*   plain       returns {'status': 'success', 'data': {...}}
\*   mutate      sets a key of its context argument, returns {'status': 'success'}
\*   patch       returns {'status': 'success', 'modify_context': {key: ...}}
\*   skip        returns {'status': 'skip'}
\*   error       returns {'status': 'error', 'error': {'code': ..., 'message': ...}}
\*   bare_error  returns {'status': 'error', 'message': ...}: no 'error' key
\*   raise       raises an exception
ScriptKinds == {"plain", "mutate", "patch", "skip", "error", "bare_error", "raise"}
ErrorScriptKinds == {"plain", "mutate", "error", "raise"}

\* the keys a script of this kind sets on the dict it is called with
ScriptMutation(kind, h, i) ==
    IF kind = "mutate" THEN (<<"mut", h, i>> :> <<"v">>) ELSE EmptyDict

\* _execute_single_hook / _run_script: the script's return value as a
\* HookResult (data and modify_context are {} when missing, error is None
\* when missing); an exception of the script becomes SCRIPT_EXCEPTION
ScriptResult(kind, h, i) ==
    [status |-> IF kind \in {"error", "bare_error", "raise"} THEN "error"
                ELSE IF kind = "skip" THEN "skip" ELSE "success",
     data |-> IF kind = "plain" THEN (<<"data", h, i>> :> <<"v">>) ELSE EmptyDict,
     error |-> IF kind = "error" THEN <<"HOOK_FAILED", h, i>>
               ELSE IF kind = "raise" THEN <<"SCRIPT_EXCEPTION", h, i>>
               ELSE None,
     modify_context |-> IF kind = "patch" THEN (<<"patch", h, i>> :> <<"v">>) ELSE EmptyDict]

\* the error hooks from j on, every one called with the same dict error_ctx;
\* their results are dropped
RECURSIVE RunErrorHooks(_, _, _, _)
RunErrorHooks(chain, j, error_ctx, calls) ==
    IF j > Len(chain) THEN calls
    ELSE RunErrorHooks(chain, j + 1,
                       Update(error_ctx, ScriptMutation(chain[j], "error", j)),
                       Append(calls, [hook |-> "error", i |-> j, seen |-> error_ctx]))

\* _handle_error(hook_name, result, context): result.error.get raises
\* AttributeError when result.error is None
handle_error(hook_name, result, context, calls) ==
    LET error_ctx ==
            Update(context,
                   (<<"hook">> :> <<"error">>)
                   @@ (<<"error_type">> :> <<"HookError">>)
                   @@ (<<"error_message">> :> <<"message", result.error>>)
                   @@ (<<"error_code">> :> <<"code", result.error>>)
                   @@ (<<"hook_name">> :> <<hook_name>>)
                   @@ (<<"timestamp">> :> <<"now">>))
        error_hooks == IF "error" \in DOMAIN hooks_config
                       THEN hooks_config["error"] ELSE <<>>
    IN  IF result.error = None
        THEN [raised |-> TRUE, calls |-> calls]
        ELSE [raised |-> FALSE,
              calls |-> RunErrorHooks(error_hooks, 1, error_ctx, calls)]

\* the loop over system_hooks from script i on: live is ctx, the one dict
\* every script of the chain is called with
RECURSIVE RunChain(_, _, _, _, _, _)
RunChain(hook_name, chain, i, live, last_data, calls) ==
    IF i > Len(chain)
    THEN [raised |-> FALSE, calls |-> calls,
          result |-> [status |-> "success", data |-> last_data, error |-> None,
                      modify_context |-> live]]
    ELSE LET result == ScriptResult(chain[i], hook_name, i)
             called == Append(calls, [hook |-> hook_name, i |-> i, seen |-> live])
             ctx1 == Update(live, ScriptMutation(chain[i], hook_name, i))
         IN  IF result.status = "error"
             THEN LET h == handle_error(hook_name, result, ctx1, called)
                  IN  [raised |-> h.raised, calls |-> h.calls, result |-> result]
             ELSE RunChain(hook_name, chain, i + 1,
                           Update(ctx1, result.modify_context),
                           IF result.data # EmptyDict THEN result.data ELSE last_data,
                           called)

\* HookPipeline.execute_hook(hook_name, context) for a context without
\* enabled_mods (no caller sets that key): [raised, result, calls], where
\* calls lists the scripts run with the context each was called with
execute_hook(hook_name, context) ==
    LET system_hooks == IF hook_name \in DOMAIN hooks_config
                        THEN hooks_config[hook_name] ELSE <<>>
    IN  RunChain(hook_name, system_hooks, 1,
                 Update(context, (<<"hook">> :> <<hook_name>>)), EmptyDict, <<>>)

\* HookResult.success
Success(result) == result.status \in {"success", "skip"}

\* tree_executor.py lines 364-380, one pass of "for stage in ('pre',
\* 'generate', 'post')" on the composition h: the call, then break on
\* failure, else the merge of modify_context into the live ctx
Stages == <<"pre", "generate", "post">>

StageOfComposition(h) ==
    LET stage == Stages[h.stage]
        r == execute_hook(stage, h.ctx)
    IN  IF r.raised
        THEN [h EXCEPT !.status = "raised", !.last = r, !.calls = @ \o r.calls]
        ELSE IF ~Success(r.result)
        THEN [h EXCEPT !.status = "failed", !.last = r, !.calls = @ \o r.calls]
        ELSE [h EXCEPT !.ctx = Update(@, r.result.modify_context),
                       !.last = r, !.calls = @ \o r.calls,
                       !.stage = @ + 1,
                       !.status = IF h.stage = Len(Stages) THEN "done" ELSE "running"]

\* ------------------------------------------------- build_jobs (jobs.py)
\* Strings are sequences of character codes, compared as Python compares
\* str.  A prompt of the document is what the expansion phases leave of it
\* for the later phases: one job with its LoRA signature ("" without LoRAs,
\* alias and strength such as "a1") and the prompt's resolutions list, whose
\* entries are 2-element lists ("pair") or anything else ("other").
Underscore == 95
LoraSigs == {<<>>, <<97, 49>>, <<98, 49>>}
SamplerNames == {<<97>>, <<98>>}

\* an entry of a samplers_config list: None, a string, a dict with skip, or a
\* dict whose list-valued parameters have `combos` value combinations (1 for
\* a dict without list-valued parameters)
SamplerEntries ==
    {[kind |-> "none", sampler |-> <<>>, combos |-> 1],
     [kind |-> "skip", sampler |-> <<97>>, combos |-> 1]}
    \cup {[kind |-> "str", sampler |-> n, combos |-> 1] : n \in SamplerNames}
    \cup {[kind |-> "dict", sampler |-> <<97>>, combos |-> c] : c \in 0..MaxList}

\* lines 822-829: active_samplers
ActiveSamplers(samplers_config) ==
    IF samplers_config.kind = "str"
    THEN <<[kind |-> "str", sampler |-> samplers_config.sampler, combos |-> 1]>>
    ELSE IF samplers_config.kind = "list" /\ samplers_config.entries # <<>>
    THEN samplers_config.entries
    ELSE <<[kind |-> "none", sampler |-> <<>>, combos |-> 1]>>

\* lines 837-953: the jobs one sampler entry makes of one job
SamplerJobs(job, s_entry) ==
    IF s_entry.kind = "skip" THEN <<>>
    ELSE [c \in 1..s_entry.combos |->
            [job EXCEPT !.sampler = s_entry.sampler,
                        !.combo = IF s_entry.kind = "dict" THEN c ELSE 0]]

RECURSIVE JobsOfSamplers(_, _)
JobsOfSamplers(job, active) ==
    IF active = <<>> THEN <<>>
    ELSE SamplerJobs(job, Head(active)) \o JobsOfSamplers(job, Tail(active))

\* lines 836-953: for job in temp_jobs: for s_entry in active_samplers
RECURSIVE SamplerPhase(_, _)
SamplerPhase(temp_jobs, active) ==
    IF temp_jobs = <<>> THEN <<>>
    ELSE JobsOfSamplers(Head(temp_jobs), active) \o SamplerPhase(Tail(temp_jobs), active)

\* lines 955-957: job['original_index'] = i + 1
AssignIndex(jobs) == [i \in DOMAIN jobs |-> [jobs[i] EXCEPT !.original_index = i]]

\* lines 960-963: f"{lora_sig}_{sampler_sig}"
sort_key(job) == job.loras \o <<Underscore>> \o job.sampler

\* line 965: list.sort(key=sort_key), a stable sort
RECURSIVE SortJobs(_)
SortJobs(jobs) ==
    IF jobs = <<>> THEN <<>>
    ELSE LET i == CHOOSE i \in DOMAIN jobs :
                    /\ \A j \in DOMAIN jobs : ~PathLess(sort_key(jobs[j]), sort_key(jobs[i]))
                    /\ \A j \in 1..(i - 1) : sort_key(jobs[j]) # sort_key(jobs[i])
         IN  <<jobs[i]>> \o SortJobs(SubSeq(jobs, 1, i - 1) \o SubSeq(jobs, i + 1, Len(jobs)))

\* lines 977-984: a deep copy of the job for every resolution that is a
\* 2-element list; the job itself when the prompt has no resolutions
ResolutionJobs(job) ==
    LET resolutions == job.resolutions
        RECURSIVE Copies(_)
        Copies(k) ==
            IF k > Len(resolutions) THEN <<>>
            ELSE (IF resolutions[k] = "pair"
                  THEN <<[job EXCEPT !.resolution_expressions = k]>> ELSE <<>>)
                 \o Copies(k + 1)
    IN  IF resolutions # <<>> THEN Copies(1) ELSE <<job>>

RECURSIVE ResolutionPhase(_)
ResolutionPhase(jobs) ==
    IF jobs = <<>> THEN <<>>
    ELSE ResolutionJobs(Head(jobs)) \o ResolutionPhase(Tail(jobs))

\* lines 415-818 as far as the later phases depend on them: one job per
\* prompt, in document order
TempJobs(prompts) ==
    [p \in DOMAIN prompts |->
        [prompt |-> p, loras |-> prompts[p].loras, resolutions |-> prompts[p].resolutions,
         sampler |-> <<>>, combo |-> 0, original_index |-> 0, resolution_expressions |-> 0]]

\* build_jobs(task_conf, ..., samplers_config=...)
build_jobs(document) ==
    ResolutionPhase(
        SortJobs(
            AssignIndex(
                SamplerPhase(TempJobs(document.prompts),
                             ActiveSamplers(document.samplers_config)))))

\* ------------------------------------------------------------------ inputs
DepEdges == {ed \in AllPaths \X AllPaths : ed[1] # ed[2]}

\* _build_block_tree on a job list with n0 jobs of "0", n00 of its child
\* "0.0", n1 of "1", and the depends_on edges D
MkTable(n0, n00, n1, D) ==
    [p \in AllPaths |->
        [parent_path |-> IF p = P00 THEN P0 ELSE None,
         depends_on |-> SortPaths({ed[2] : ed \in {x \in D : x[1] = p}}),
         compositions |-> IF p = P0 THEN n0 ELSE IF p = P00 THEN n00 ELSE n1]]

\* block table: "0" with n compositions, its child "0.0" with n (one per
\* parent composition), "1" with m, and the depends_on edges D
MkBlocks(n, m, D) == MkTable(n, n, m, D)

BlockTables ==
    {MkBlocks(n, m, D) : n \in 1..MaxComp, m \in 1..MaxComp,
                         D \in {X \in SUBSET DepEdges : Cardinality(X) <= MaxDeps}}

\* a hook that can be asked to fail: block-level hooks at the composition
\* they are invoked with, stage hooks at every composition
FailPoints(B) ==
    {<<h, p, 0>> : h \in {"node_start", "resolve"}, p \in AllPaths}
    \cup {<<"node_end", p, B[p].compositions - 1>> : p \in AllPaths}
    \cup {t \in StageHooks \X AllPaths \X (0..(MaxComp - 1)) :
            t[3] < B[t[2]].compositions}

\* the executor right after TreeExecutor.__init__, before any call
InitExecutorState ==
    /\ set_order \in IterationOrders(Roots(blocks))
    /\ output_path = run_output_path
    /\ stop_log = <<>>
    /\ queue = <<>>
    /\ queue_position = 0
    /\ state = IDLE
    /\ visited_blocks = {}
    /\ failed_blocks = {}
    /\ blocked_blocks = {}
    /\ block_states = [p \in AllPaths |-> Unset]
    /\ block_completed = [p \in AllPaths |-> 0]
    /\ resolve_cache = [p \in {} |-> <<>>]
    /\ variation_results = [k \in {} |-> Unset]
    /\ completed_compositions = 0
    /\ stop_requested = FALSE
    /\ block_artifacts = [p \in AllPaths |-> <<>>]
    /\ composition_failed = FALSE
    /\ composition_data = 0
    /\ ctx = NoCtx
    /\ in_run = TRUE
    /\ files = [f \in {} |-> <<>>]
    /\ manifest = <<>>
    /\ pc = "idle"
    /\ events = <<>>
    /\ hook_calls = <<>>

\* the executor constructed from a job list that names the blocks in path
\* order
InitExecutor ==
    /\ block_order = SortPaths(DOMAIN blocks)
    /\ InitExecutorState

\* the hook pipeline, the composition run through it, the server and the job
\* builder, when not in use
NoHook == [status |-> "unused"]
NoDocument == [prompts |-> <<>>, samplers_config |-> [kind |-> "none"]]
NotBuilt == [built |-> FALSE, jobs |-> <<>>]
AsideIdle ==
    /\ hooks_config = EmptyDict
    /\ hook_run = NoHook
    /\ active_executors = EmptyDict
    /\ handlers = <<>>
    /\ stop_flags = {}
    /\ job_document = NoDocument
    /\ job_list = NotBuilt

\* the executor as handle_pipeline_run constructs it: no output_path
Init ==
    /\ blocks \in BlockTables
    /\ failing \in {{}} \cup {{t} : t \in FailPoints(blocks)}
    /\ arts_per_comp \in 0..MaxArts
    /\ art_shape = [i \in 0..(MaxComp - 1) |-> TextShape]
    /\ run_output_path = FALSE
    /\ unwritable = {}
    /\ InitExecutor
    /\ AsideIdle

Config == <<blocks, block_order, failing, arts_per_comp, art_shape, run_output_path,
            unwritable, set_order>>

\* ----------------------------------------------------------------- actions
\* the thread that calls execute() and resume() is outside execute(): it has
\* not called it yet, or the call has returned or raised
Outside == pc \in {"idle", "done", "raised"}

\* who calls execute(), the first time and every later time: EventStream.run()
\* (TRUE), or the holder of the executor, as handle_pipeline_run does (FALSE)
RunCalls == BOOLEAN

\* execute() by the caller, whatever the state of the executor: new, paused,
\* complete, failed, or left by an exception; stop_requested stays as it is
Execute ==
    /\ Outside
    /\ \E by_run \in RunCalls : Apply(ExecuteEnter([Cur EXCEPT !.in_run = by_run]))
    /\ UNCHANGED <<Config, Aside, stop_log>>

Loop ==
    /\ pc = "loop"
    /\ Apply(LoopStep(Cur))
    /\ UNCHANGED <<Config, Aside, stop_log>>

NodeStart ==
    /\ pc = "node_start"
    /\ Apply(NodeStartStep(Cur))
    /\ UNCHANGED <<Config, Aside, stop_log>>

Resolve ==
    /\ pc = "resolve"
    /\ Apply(ResolveStep(Cur))
    /\ UNCHANGED <<Config, Aside, stop_log>>

Stage ==
    /\ pc \in StageHooks
    /\ Apply(StageStep(Cur, pc))
    /\ UNCHANGED <<Config, Aside, stop_log>>

AfterStages ==
    /\ pc = "after_stages"
    /\ Apply(AfterStagesStep(Cur))
    /\ UNCHANGED <<Config, Aside, stop_log>>

NodeEnd ==
    /\ pc = "node_end"
    /\ Apply(NodeEndStep(Cur))
    /\ UNCHANGED <<Config, Aside, stop_log>>

Finalize ==
    /\ pc = "final"
    /\ Apply(ReturnStep(Cur))
    /\ UNCHANGED <<Config, Aside, stop_log>>

\* stop() from another thread (handle_pipeline_stop, EventStream.stop) or from
\* on_progress, at any time: before execute(), during it, and after it has
\* made its last check of the flag, returned or raised
Stop ==
    /\ Len(stop_log) < MaxStops
    /\ ~stop_requested
    /\ Apply(stop(Cur))
    /\ stop_log' = Append(stop_log, [pc |-> pc, queue_position |-> queue_position,
                                     completed_compositions |-> completed_compositions])
    /\ UNCHANGED <<Config, Aside>>

\* resume() by the caller, whatever the state of the executor: new, paused,
\* complete, failed, or left by an exception
Resume ==
    /\ Outside
    /\ Apply(resume(Cur))
    /\ UNCHANGED <<Config, Aside, stop_log>>

\* write_manifest(job directory) by the caller; an exception of the write
\* goes to the caller and leaves the executor where it is
WriteManifest ==
    /\ Outside
    /\ Apply([write_manifest(Cur, TRUE) EXCEPT !.pc = pc])
    /\ UNCHANGED <<Config, Aside, stop_log>>

Next ==
    \/ Execute
    \/ Loop
    \/ NodeStart
    \/ Resolve
    \/ Stage
    \/ AfterStages
    \/ NodeEnd
    \/ Finalize
    \/ Stop
    \/ Resume
    \/ WriteManifest

Spec == Init /\ [][Next]_vars


\* block tables whose depends_on edges join different root subtrees, so that
\* an order of the blocks exists that satisfies every edge
Orderable(B) ==
    \A p \in DOMAIN B : \A d \in SeqToSet(B[p].depends_on) : p[1] # d[1]
InitOrderable == Init /\ Orderable(blocks)
SpecOrderable == InitOrderable /\ [][Next]_vars

\* build_queue() called on a new executor.  The child's compositions are the
\* Cartesian product of the parent's with c of its own (c per parent
\* composition), as the constructor's docstring requires of the job list.
QueueTables ==
    {MkTable(n, n * c, m, D) : n \in 1..MaxComp, c \in 1..MaxComp, m \in 1..MaxComp,
                               D \in {X \in SUBSET DepEdges : Cardinality(X) <= MaxDeps}}

InitQueue ==
    /\ blocks \in QueueTables
    /\ failing = {}
    /\ arts_per_comp = 0
    /\ art_shape = [i \in 0..(MaxComp * MaxComp - 1) |-> TextShape]
    /\ run_output_path = FALSE
    /\ unwritable = {}
    /\ InitExecutor
    /\ AsideIdle

BuildQueue ==
    /\ pc = "idle"
    /\ queue = <<>>
    /\ queue' = build_queue(blocks, set_order)
    /\ UNCHANGED <<Config, Aside, stop_log, queue_position, state, visited_blocks,
                   failed_blocks, blocked_blocks, block_states, block_completed,
                   resolve_cache, variation_results, completed_compositions,
                   stop_requested, output_path, block_artifacts, composition_failed,
                   composition_data, ctx, in_run, files, manifest, pc, events,
                   hook_calls>>

SpecQueue == InitQueue /\ [][BuildQueue]_vars

\* runs under EventStream with a job directory: output_path is set, and the
\* generate scripts return artifacts of any shape
StoreFailPoints(B) == {t \in FailPoints(B) : t[1] \in {"resolve", "generate"}}

InitStore ==
    /\ blocks \in {MkBlocks(n, m, {}) : n \in 1..MaxComp, m \in 1..MaxComp}
    /\ failing \in {{}} \cup {{t} : t \in StoreFailPoints(blocks)}
    /\ arts_per_comp \in 0..MaxArts
    /\ art_shape \in IF arts_per_comp = 0
                     THEN {[i \in 0..(MaxComp - 1) |-> TextShape]}
                     ELSE [0..(MaxComp - 1) -> ArtShapes]
    /\ run_output_path = TRUE
    /\ unwritable = {}
    /\ InitExecutor
    /\ AsideIdle

SpecStore == InitStore /\ [][Next]_vars

\* the thread that called execute() keeps running until execute() returns or
\* raises; stop() and resume() are up to the caller
ExecutorStep ==
    \/ Execute
    \/ Loop
    \/ NodeStart
    \/ Resolve
    \/ Stage
    \/ AfterStages
    \/ NodeEnd
    \/ Finalize


\* weak fairness of ExecutorStep.  A step of the executor is possible exactly
\* when execute() is entered or not yet left (each of the actions above is
\* guarded by its position only), so the enabling condition is written as
\* that state predicate.
ExecutorRuns ==
    []<>(pc \in {"done", "raised"}) \/ []<><<ExecutorStep>>_vars

SpecStoreFair == InitStore /\ [][Next]_vars /\ ExecutorRuns

\* runs under EventStream with a job directory in which one path cannot be
\* opened for writing (it is a directory, or permission is denied)
IOShapes ==
    {TextShape}
    \cup {s \in ArtShapes : s.mod_id = Absent /\ (s.binary \/ s.content = "text")}

UnwritablePaths ==
    {ManifestPath}
    \cup {JsonlPath(m, p) : m \in {<<"text_writer">>, <<"_unknown">>}, p \in AllPaths}
    \cup {BinPath(<<"_unknown">>, p, <<"name", p, i, 1>>) :
             p \in AllPaths, i \in 0..(MaxComp - 1)}

InitIO ==
    /\ blocks \in {MkBlocks(n, m, {}) : n \in 1..MaxComp, m \in 1..MaxComp}
    /\ failing = {}
    /\ arts_per_comp \in 1..MaxArts
    /\ art_shape \in [0..(MaxComp - 1) -> IOShapes]
    /\ run_output_path = TRUE
    /\ unwritable \in {{f} : f \in UnwritablePaths}
    /\ InitExecutor
    /\ AsideIdle

SpecIO == InitIO /\ [][Next]_vars

\* failure-free runs over a queue of 10 compositions: 2n of "0" and "0.0",
\* 10 - 2n of "1"
TenTables == {MkBlocks(n, 10 - 2 * n, {}) : n \in 1..4}

InitTen ==
    /\ blocks \in TenTables
    /\ failing = {}
    /\ arts_per_comp \in 0..MaxArts
    /\ art_shape = [i \in 0..7 |-> TextShape]
    /\ run_output_path = FALSE
    /\ unwritable = {}
    /\ InitExecutor
    /\ AsideIdle

SpecTen == InitTen /\ [][Next]_vars

\* one composition taken through pre, generate, post by the executor's stage
\* loop, with a HookPipeline whose hooks.yaml names scripts under pre,
\* generate and error (nothing under post)
Chains(kinds, n) == UNION {[1..k -> kinds] : k \in 0..n}

HookConfigs ==
    {("pre" :> a) @@ ("generate" :> b) @@ ("error" :> c) :
        a \in Chains(ScriptKinds, MaxScripts),
        b \in Chains(ScriptKinds, 1),
        c \in Chains(ErrorScriptKinds, MaxScripts)}

\* the keys of the composition's context that the executor sets
BaseCtx == (<<"block_path">> :> <<"0">>) @@ (<<"composition_index">> :> <<"0">>)

\* lines 342-346: the context after node_start, whose modify_context (the
\* context with the key hook) is merged into it
AfterNodeStart(context) ==
    Update(context, execute_hook("node_start", context).result.modify_context)

InitHooks ==
    /\ blocks = MkBlocks(1, 1, {})
    /\ failing = {}
    /\ arts_per_comp = 0
    /\ art_shape = [i \in 0..(MaxComp - 1) |-> TextShape]
    /\ run_output_path = FALSE
    /\ unwritable = {}
    /\ InitExecutor
    /\ hooks_config \in HookConfigs
    /\ active_executors = EmptyDict
    /\ handlers = <<>>
    /\ stop_flags = {}
    /\ job_document = NoDocument
    /\ job_list = NotBuilt
    /\ hook_run = [status |-> "running", ctx |-> AfterNodeStart(BaseCtx), stage |-> 1,
                   calls |-> <<>>, last |-> [raised |-> FALSE]]

HookStage ==
    /\ hook_run.status = "running"
    /\ hook_run' = StageOfComposition(hook_run)
    /\ UNCHANGED <<Config, hooks_config, active_executors, handlers, stop_flags,
                   job_document, job_list,
                   stop_log, queue, queue_position, state,
                   visited_blocks, failed_blocks, blocked_blocks, block_states,
                   block_completed, resolve_cache, variation_results,
                   completed_compositions, stop_requested, output_path, block_artifacts,
                   composition_failed, composition_data, ctx, in_run, files,
                   manifest, pc, events, hook_calls>>

SpecHooks == InitHooks /\ [][HookStage]_vars

\* the web server (webui/prompty/server): ThreadedHTTPServer gives every
\* connection its own thread, which runs handle_pipeline_run or
\* handle_pipeline_stop for the job of the request.  An executor is named by
\* the connection that created it.
JobIds == {"j1", "j2"}
Conns == 1..MaxConns

Requests == {[kind |-> k, job_id |-> j] : k \in {"run", "stop"}, j \in JobIds}

\* a handler before its first step.  pc of a run: new, registered (execute()
\* running), returned (execute() has returned or the handler left the try
\* block early), done.  pc of a stop: new, looked_up, done.  executor and live
\* are set by the lookup of a stop: what it found, and the runs of its job
\* that had registered and not returned at that moment.
NewHandler(req) ==
    [kind |-> req.kind, job_id |-> req.job_id, pc |-> "new",
     executor |-> 0, live |-> {}, response |-> 0]

InitServer ==
    /\ blocks = MkBlocks(1, 1, {})
    /\ failing = {}
    /\ arts_per_comp = 0
    /\ art_shape = [i \in 0..(MaxComp - 1) |-> TextShape]
    /\ run_output_path = FALSE
    /\ unwritable = {}
    /\ InitExecutor
    /\ hooks_config = EmptyDict
    /\ hook_run = NoHook
    /\ active_executors = EmptyDict
    /\ handlers \in {[c \in Conns |-> NewHandler(r[c])] : r \in [Conns -> Requests]}
    /\ stop_flags = {}
    /\ job_document = NoDocument
    /\ job_list = NotBuilt

ServerFrame ==
    UNCHANGED <<Config, hooks_config, hook_run, job_document, job_list,
                stop_log, queue, queue_position,
                state, visited_blocks, failed_blocks, blocked_blocks, block_states,
                block_completed, resolve_cache, variation_results,
                completed_compositions, stop_requested, output_path, block_artifacts,
                composition_failed, composition_data, ctx, in_run, files,
                manifest, pc, events, hook_calls>>

\* pipeline.py lines 80-115: jobs.yaml missing or no job for the prompt: the
\* handler sends an error event and returns from inside the try block
RunReturnsEarly(c) ==
    /\ handlers[c].kind = "run" /\ handlers[c].pc = "new"
    /\ handlers' = [handlers EXCEPT ![c].pc = "returned"]
    /\ UNCHANGED <<active_executors, stop_flags>>
    /\ ServerFrame

\* lines 167-171: executor = TreeExecutor(...); with _executor_lock:
\* _active_executors[job_id] = executor
RunRegisters(c) ==
    /\ handlers[c].kind = "run" /\ handlers[c].pc = "new"
    /\ active_executors' = Put(active_executors, handlers[c].job_id, c)
    /\ handlers' = [handlers EXCEPT ![c].pc = "registered"]
    /\ UNCHANGED stop_flags
    /\ ServerFrame

\* lines 198-203: executor.execute() returns (finished, failed or paused) and
\* run_complete is sent
RunExecuteReturns(c) ==
    /\ handlers[c].kind = "run" /\ handlers[c].pc = "registered"
    /\ handlers' = [handlers EXCEPT ![c].pc = "returned"]
    /\ UNCHANGED <<active_executors, stop_flags>>
    /\ ServerFrame

\* lines 207-209: finally: with _executor_lock: _active_executors.pop(job_id, None)
RunFinally(c) ==
    /\ handlers[c].kind = "run" /\ handlers[c].pc = "returned"
    /\ active_executors' =
          [j \in DOMAIN active_executors \ {handlers[c].job_id} |-> active_executors[j]]
    /\ handlers' = [handlers EXCEPT ![c].pc = "done"]
    /\ UNCHANGED stop_flags
    /\ ServerFrame

\* lines 218-219: with _executor_lock: executor = _active_executors.get(job_id)
StopLooksUp(c) ==
    /\ handlers[c].kind = "stop" /\ handlers[c].pc = "new"
    /\ handlers' =
          [handlers EXCEPT
              ![c].pc = "looked_up",
              ![c].executor = IF handlers[c].job_id \in DOMAIN active_executors
                              THEN active_executors[handlers[c].job_id] ELSE 0,
              ![c].live = {r \in Conns : /\ handlers[r].kind = "run"
                                         /\ handlers[r].job_id = handlers[c].job_id
                                         /\ handlers[r].pc = "registered"}]
    /\ UNCHANGED <<active_executors, stop_flags>>
    /\ ServerFrame

\* lines 221-233: executor.stop() and 200 {'status': 'stopping'}, or 404
\* {'error': 'No active executor'}
StopResponds(c) ==
    /\ handlers[c].kind = "stop" /\ handlers[c].pc = "looked_up"
    /\ stop_flags' = IF handlers[c].executor # 0
                     THEN stop_flags \cup {handlers[c].executor} ELSE stop_flags
    /\ handlers' = [handlers EXCEPT ![c].pc = "done",
                                    ![c].response = IF handlers[c].executor # 0
                                                    THEN 200 ELSE 404]
    /\ UNCHANGED active_executors
    /\ ServerFrame

NextServer ==
    \E c \in Conns :
        \/ RunReturnsEarly(c)
        \/ RunRegisters(c)
        \/ RunExecuteReturns(c)
        \/ RunFinally(c)
        \/ StopLooksUp(c)
        \/ StopResponds(c)

SpecServer == InitServer /\ [][NextServer]_vars

\* build_jobs called on a job document
Prompts ==
    {[loras |-> l, resolutions |-> r] :
        l \in LoraSigs, r \in Chains({"pair", "other"}, MaxList)}

SamplerConfigs ==
    {[kind |-> "none"]}
    \cup {[kind |-> "str", sampler |-> n] : n \in SamplerNames}
    \cup {[kind |-> "list", entries |-> e] : e \in Chains(SamplerEntries, MaxList)}

InitJobs ==
    /\ blocks = MkBlocks(1, 1, {})
    /\ failing = {}
    /\ arts_per_comp = 0
    /\ art_shape = [i \in 0..(MaxComp - 1) |-> TextShape]
    /\ run_output_path = FALSE
    /\ unwritable = {}
    /\ InitExecutor
    /\ hooks_config = EmptyDict
    /\ hook_run = NoHook
    /\ active_executors = EmptyDict
    /\ handlers = <<>>
    /\ stop_flags = {}
    /\ job_document \in {[prompts |-> ps, samplers_config |-> sc] :
                            ps \in Chains(Prompts, MaxPrompts), sc \in SamplerConfigs}
    /\ job_list = NotBuilt

BuildJobs ==
    /\ ~job_list.built
    /\ job_list' = [built |-> TRUE, jobs |-> build_jobs(job_document)]
    /\ UNCHANGED <<Config, hooks_config, hook_run, active_executors, handlers,
                   stop_flags, job_document, stop_log, queue, queue_position,
                   state, visited_blocks, failed_blocks, blocked_blocks, block_states,
                   block_completed, resolve_cache, variation_results,
                   completed_compositions, stop_requested, output_path, block_artifacts,
                   composition_failed, composition_data, ctx, in_run, files,
                   manifest, pc, events, hook_calls>>

SpecJobs == InitJobs /\ [][BuildJobs]_vars

\* block tables in which two blocks depend on the third, given by job lists
\* that name the blocks in any order; a resolve hook may fail
TwoDependents == {{<<p, a>> : p \in AllPaths \ {a}} : a \in AllPaths}

InitDependents ==
    /\ blocks \in {MkBlocks(n, m, D) : n \in 1..MaxComp, m \in 1..MaxComp,
                                       D \in TwoDependents}
    /\ block_order \in IterationOrders(DOMAIN blocks)
    /\ failing \in {{}} \cup {{<<"resolve", p, 0>>} : p \in AllPaths}
    /\ arts_per_comp \in 0..MaxArts
    /\ art_shape = [i \in 0..(MaxComp - 1) |-> TextShape]
    /\ run_output_path = FALSE
    /\ unwritable = {}
    /\ InitExecutorState
    /\ AsideIdle

SpecDependents == InitDependents /\ [][Next]_vars

\* failure-free runs: no hook script returns error
InitFailureFree == Init /\ failing = {}
SpecFailureFree == InitFailureFree /\ [][Next]_vars

\* --------------------------------------------------- properties: vocabulary
Count(seq, x) == Cardinality({i \in DOMAIN seq : seq[i] = x})

\* number of invocations of hook h for block b, whatever the composition
CountBlockHook(h, b) ==
    Cardinality({i \in DOMAIN hook_calls : hook_calls[i][1] = h /\ hook_calls[i][2] = b})

\* hooks whose error status is the failure of a composition
FailureHooks == {"resolve", "pre", "generate", "post"}

\* the i-th hook invocation returned status error
ReturnedError(i) == hook_calls[i] \in failing

\* blocks that are children or dependents of a block of S
Linked(S) ==
    {c \in AllPaths : blocks[c].parent_path \in S
                      \/ SeqToSet(blocks[c].depends_on) \cap S # {}}

\* blocks reachable from b through child and dependent links
RECURSIVE ReachFrom(_)
ReachFrom(S) == IF Linked(S) \subseteq S THEN S ELSE ReachFrom(S \cup Linked(S))
Reach(b) == ReachFrom(Linked({b}))

\* the run of the same inputs with no stop() request: execute() from a new
\* executor to its return
RECURSIVE Run(_)
Run(e) == IF e.pc \in {"done", "raised"} THEN e ELSE Run(Step(e))
Uninterrupted == Run(NewExecutor)

Finished == pc = "done" /\ state # PAUSED
LastStop == stop_log[Len(stop_log)]
StoppedEntry == queue[LastStop.queue_position + 1]

\* b is an ancestor of d in the block table
RECURSIVE IsDescendant(_, _, _)
IsDescendant(B, d, b) ==
    /\ B[d].parent_path \in DOMAIN B
    /\ \/ B[d].parent_path = b
       \/ IsDescendant(B, B[d].parent_path, b)

\* positions of the queue entries of block b
EntriesOf(b) == {i \in DOMAIN queue : queue[i].block_path = b}

\* --------------------------------------------------------------- properties

\* C1: for every block B and every D in B.depends_on, B is not started
\* (block_start emitted, first hook run) until D's state is complete.
C1_DependsOnIsHardOrdering ==
    [][\A b \in AllPaths :
          (b \notin visited_blocks /\ b \in visited_blocks')
          => \A d \in SeqToSet(blocks[b].depends_on) : block_states[d] = COMPLETE]_vars

\* C2: after a composition of block B failed (one of its resolve, pre,
\* generate or post hooks returned error), no hook is invoked for another
\* block reachable from B through child or dependent links.
C2_NoHookForDescendantsAfterFailure ==
    \A i \in DOMAIN hook_calls : \A j \in DOMAIN hook_calls :
        (/\ i < j
         /\ ReturnedError(i)
         /\ hook_calls[i][1] \in FailureHooks)
        => hook_calls[j][2] \notin Reach(hook_calls[i][2]) \ {hook_calls[i][2]}

\* C3: after a composition of block B failed (its resolve, pre, generate or
\* post hook returned error), no hook is invoked for another composition of B.
C3_NoFurtherCompositionAfterFailure ==
    \A i \in DOMAIN hook_calls : \A j \in DOMAIN hook_calls :
        (/\ i < j
         /\ ReturnedError(i)
         /\ hook_calls[i][1] \in FailureHooks
         /\ hook_calls[j][2] = hook_calls[i][2])
        => hook_calls[j][3] = hook_calls[i][3]

\* C4: when stop() is requested while a composition executes its stages
\* (none of which fails), execute() returns paused with that composition
\* completed: its three stages ran, composition_complete was emitted and
\* queue_position is past it.
C4_StopCompletesCurrentComposition ==
    (/\ pc = "done" /\ state = PAUSED
     /\ stop_log # <<>>
     /\ LastStop.pc \in StageHooks
     /\ \A h \in StageHooks :
           <<h, StoppedEntry.block_path, StoppedEntry.composition_idx>> \notin failing)
    => /\ queue_position = LastStop.queue_position + 1
       /\ Count(events, <<"composition_complete", StoppedEntry.block_path,
                          StoppedEntry.composition_idx>>) = 1
       /\ \A h \in StageHooks :
             Count(hook_calls, <<h, StoppedEntry.block_path,
                                 StoppedEntry.composition_idx>>) = 1

\* C5: whenever stop() was requested execute() returns paused, and the events
\* of the paused and resumed run are the events of the uninterrupted run.
C5_ResumeReproducesUninterruptedEvents ==
    /\ (pc = "done" /\ stop_requested) => state = PAUSED
    /\ Finished => events = Uninterrupted.events

\* C6: in a failure-free run, with any stop() and resume() calls, once the
\* run is complete every queue entry has emitted composition_complete exactly
\* once and completed_compositions is the queue length.
C6_EveryCompositionCompletedOnce ==
    (pc = "done" /\ state = COMPLETE /\ failing = {})
    => /\ \A k \in DOMAIN queue :
             Count(events, <<"composition_complete", queue[k].block_path,
                             queue[k].composition_idx>>) = 1
       /\ completed_compositions = Len(queue)

\* C6 witness: a failure-free run stopped in the middle of a composition,
\* resumed, and complete
C6_Witness ==
    /\ pc = "done" /\ state = COMPLETE /\ failing = {}
    /\ stop_log # <<>>
    /\ stop_log[1].pc \in StageHooks
    /\ Len(queue) > 1

\* C7: in a run that ends complete, node_start, resolve and node_end are each
\* invoked exactly once for every block.
C7_BlockHooksExactlyOnce ==
    (pc = "done" /\ state = COMPLETE)
    => \A b \in DOMAIN blocks : \A h \in BlockHooks : CountBlockHook(h, b) = 1

\* C8: pre, generate and post are each invoked at most once for every
\* composition, and exactly once for every composition that completed.
C8_StagesOncePerComposition ==
    \A k \in DOMAIN queue : \A h \in StageHooks :
        LET c == Count(hook_calls, <<h, queue[k].block_path, queue[k].composition_idx>>)
        IN  /\ c <= 1
            /\ <<"composition_complete", queue[k].block_path,
                 queue[k].composition_idx>> \in SeqToSet(events) => c = 1

\* C9: a stage hook of a block runs only after the block's node_start and a
\* successful resolve; generate only after a successful pre and post only
\* after a successful generate of the same composition; node_end only after
\* post of the block's last composition.
C9_HookOrder ==
    \A j \in DOMAIN hook_calls :
        LET h == hook_calls[j][1]
            b == hook_calls[j][2]
            idx == hook_calls[j][3]
            Before(hk, ix, ok) ==
                \E i \in 1..(j - 1) :
                    /\ hook_calls[i][1] = hk
                    /\ hook_calls[i][2] = b
                    /\ ix >= 0 => hook_calls[i][3] = ix
                    /\ ok => ~ReturnedError(i)
        IN  /\ h \in StageHooks => Before("node_start", -1, FALSE) /\ Before("resolve", -1, TRUE)
            /\ h = "generate" => Before("pre", idx, TRUE)
            /\ h = "post" => Before("generate", idx, TRUE)
            /\ h = "node_end" => Before("post", blocks[b].compositions - 1, FALSE)

\* C10: if a hook invocation (node_start, resolve, pre, generate, post or
\* node_end) returned error in a run where stop() was never requested,
\* execute() ends with state failed.
C10_AnyHookErrorEndsFailed ==
    (/\ pc = "done"
     /\ stop_log = <<>>
     /\ \E i \in DOMAIN hook_calls : ReturnedError(i))
    => state = FAILED

\* C11: every composition that runs pre, generate or post has in its context
\* resolve_data equal to the data returned by the single resolve invocation
\* of its block, in any run, paused and resumed runs included.
C11_ResolveDataIsTheResolveResult ==
    pc \in StageHooks
    => /\ CountBlockHook("resolve", ctx.block_path) = 1
       /\ \E i \in DOMAIN hook_calls :
             /\ hook_calls[i][1] = "resolve"
             /\ hook_calls[i][2] = ctx.block_path
             /\ ctx.resolve_data
                  = HookResult("resolve", ctx.block_path, hook_calls[i][3]).data

\* C12: the upstream_artifacts of a composition's context holds artifacts
\* only of blocks (other than the composition's own) whose state was complete
\* when the context was built.
C12_UpstreamArtifactsOnlyOfCompleteBlocks ==
    ctx # NoCtx
    => \A p \in DOMAIN ctx.upstream_artifacts \ {ctx.block_path} :
          ctx.block_states[p] = COMPLETE

\* C13 as stated: in the queue built by build_queue, for any block B and any
\* descendant block D of B, every queue entry for B is positioned before
\* every queue entry for D.
C13_EveryEntryOfBBeforeDescendants ==
    \A b \in DOMAIN blocks : \A d \in DOMAIN blocks :
        IsDescendant(blocks, d, b)
        => \A i \in EntriesOf(b) : \A j \in EntriesOf(d) : i < j

\* C13 amended: every queue entry of a block with a parent is positioned
\* after the entry of the parent composition it belongs to (its parent_key)
\* and before the parent block's next entry.
C13_EntryFollowsItsParentComposition ==
    \A j \in DOMAIN queue :
        queue[j].parent_key # None
        => \E i \in 1..(j - 1) :
              /\ queue[i].block_path = queue[j].parent_key[1]
              /\ queue[i].composition_idx = queue[j].parent_key[2]
              /\ \A k \in (i + 1)..(j - 1) : queue[k].block_path # queue[i].block_path

\* C13 witness: a built queue in which a block with several compositions has
\* a descendant with entries under each of them
C13_Witness ==
    /\ blocks[P0].compositions >= 2
    /\ Cardinality(EntriesOf(P00)) >= 2
    /\ \E i \in EntriesOf(P0) : \E j \in EntriesOf(P00) : j < i

\* C14: in the queue built by build_queue, for every entry of a block B (root
\* or not) that declares a dependency on block D, every queue entry of D is
\* at an earlier position.  Stated for block tables in which an order that
\* satisfies every depends_on edge exists.
C14_DependencyEntriesEarlier ==
    (Orderable(blocks) /\ queue # <<>>)
    => \A b \in DOMAIN blocks : \A d \in SeqToSet(blocks[b].depends_on) :
          \A j \in EntriesOf(b) : \A i \in EntriesOf(d) : i < j

\* the first stop() was requested when exactly n compositions had completed
\* and the next one had not started, and execute() has returned since
StoppedAfter(n) ==
    /\ pc = "done" /\ stop_requested
    /\ Len(stop_log) = 1
    /\ stop_log[1].completed_compositions = n
    /\ stop_log[1].pc \in {"node_end", "loop"}

CompositionCompleteEvents ==
    Cardinality({i \in DOMAIN events : events[i][1] = "composition_complete"})

\* C15 as stated: in a failure-free run whose queue has 10 compositions, if
\* stop() is called when the 4th composition has completed, execute() returns
\* with exactly 4 composition_complete events, state paused and
\* queue_position equal to 5.
C15_StopAfterFourthLeavesPositionFive ==
    (StoppedAfter(4) /\ Len(queue) = 10 /\ failing = {})
    => /\ CompositionCompleteEvents = 4
       /\ state = PAUSED
       /\ queue_position = 5

\* C15 amended: ... execute() returns with exactly 4 composition_complete
\* events, state paused and queue_position equal to 4 (the position of the
\* 5th composition, the next to run).
C15_StopAfterFourthLeavesPositionFour ==
    (StoppedAfter(4) /\ Len(queue) = 10 /\ failing = {})
    => /\ CompositionCompleteEvents = 4
       /\ state = PAUSED
       /\ queue_position = 4

\* C15 witness: such a run, stopped while the 4th composition's block was
\* completing
C15_Witness ==
    /\ StoppedAfter(4) /\ Len(queue) = 10 /\ failing = {}
    /\ stop_log[1].pc = "node_end"
    /\ state = PAUSED

\* positions of the artifact_consumed events of dependent d for source a
ConsumedAt(d, a) ==
    {i \in DOMAIN events : /\ events[i][1] = "artifact_consumed"
                            /\ events[i][2] = d
                            /\ events[i][3] = a}

Completed(a) == <<"block_complete", a>> \in SeqToSet(events)

\* C16 as stated: when a block A completes, exactly one artifact_consumed
\* event (dependent, A, number of A's artifacts) is emitted for each block
\* whose depends_on contains A, however many artifacts A produced.
C16_OneConsumedEventPerDependent ==
    \A a \in AllPaths : \A d \in AllPaths :
        (Completed(a) /\ a \in SeqToSet(blocks[d].depends_on))
        => /\ Cardinality(ConsumedAt(d, a)) = 1
           /\ \A i \in ConsumedAt(d, a) : events[i][4] = Len(block_artifacts[a])

\* C16 amended: when a block A that produced at least one artifact completes,
\* exactly one artifact_consumed event (dependent, A, number of A's
\* artifacts) is emitted for each block whose depends_on contains A, however
\* many artifacts A produced; no artifact_consumed event is emitted for a
\* block that produced no artifact, has not completed, or is not depended on.
C16_OneConsumedEventPerDependentOfProducer ==
    \A a \in AllPaths : \A d \in AllPaths :
        IF /\ Completed(a)
           /\ a \in SeqToSet(blocks[d].depends_on)
           /\ block_artifacts[a] # <<>>
        THEN /\ Cardinality(ConsumedAt(d, a)) = 1
             /\ \A i \in ConsumedAt(d, a) : events[i][4] = Len(block_artifacts[a])
        ELSE ConsumedAt(d, a) = {}

\* C16 witness: a block with two artifacts completed and has two dependents,
\* each with its event
C16_Witness ==
    \E a \in AllPaths : \E d1 \in AllPaths : \E d2 \in AllPaths \ {d1} :
        /\ Completed(a)
        /\ Len(block_artifacts[a]) = 2
        /\ <<"artifact_consumed", d1, a, 2>> \in SeqToSet(events)
        /\ <<"artifact_consumed", d2, a, 2>> \in SeqToSet(events)

\* artifact_consumed(B, A, n) is emitted after block_complete(A)
ConsumedAfterComplete ==
    \A i \in DOMAIN events :
        events[i][1] = "artifact_consumed"
        => \E j \in 1..(i - 1) : events[j] = <<"block_complete", events[i][3]>>

\* artifact_consumed(B, A, n) is emitted before block_start(B)
ConsumedBeforeStart ==
    \A i \in DOMAIN events :
        events[i][1] = "artifact_consumed"
        => \A j \in 1..(i - 1) : events[j] # <<"block_start", events[i][2]>>

\* C17: when block B depends on block A, the artifact_consumed(B, A, n)
\* event is emitted after block_complete(A) and before block_start(B).
C17_ConsumedBetweenCompleteAndStart ==
    ConsumedAfterComplete /\ ConsumedBeforeStart

\* number of blocks whose state is complete
BlocksComplete == Cardinality({p \in AllPaths : block_states[p] = COMPLETE})

\* C18: with an output path configured, immediately after every
\* block_complete event the file _artifacts/manifest.json exists, is a
\* complete JSON document, and its run.blocks_complete equals the number of
\* blocks whose state is complete at that moment.
C18_ManifestCurrentAfterBlockComplete ==
    (/\ output_path
     /\ events # <<>>
     /\ events[Len(events)][1] = "block_complete")
    => /\ manifest # <<>>
       /\ manifest[1].blocks_complete = BlocksComplete

\* the artifacts of block_artifacts that are text artifacts with both
\* locator fields set
LocatedText ==
    {a \in UNION {SeqToSet(block_artifacts[p]) : p \in AllPaths} :
        ~a.binary /\ a.disk_path # Absent /\ a.disk_line # None}

\* C19: after a block is flushed, for every text artifact of that block that
\* carries disk_path and disk_line, the line at 0-based offset disk_line of
\* the file disk_path is a JSON object whose content equals the artifact's
\* content, or its preview when it has no content (none or an empty one).
C19_LineReferenceReadsTheArtifact ==
    \A a \in LocatedText :
        /\ a.disk_path \in DOMAIN files
        /\ a.disk_line[1] + 1 \in DOMAIN files[a.disk_path]
        /\ files[a.disk_path][a.disk_line[1] + 1].content
             = IF Falsy(a.content) THEN Get(a.preview, EmptyStr) ELSE a.content

\* C19 witness: a flushed block whose second artifact is the first line of
\* its file and is written with its preview, having no content
C19_Witness ==
    \E p \in AllPaths :
        /\ Len(block_artifacts[p]) = 2
        /\ block_artifacts[p][2] \in LocatedText
        /\ block_artifacts[p][2].disk_line = <<0>>
        /\ Falsy(block_artifacts[p][2].content)
        /\ block_artifacts[p][2].preview \notin {Absent, EmptyStr}

\* EventStream.run() has got execute() back, by return or by exception
RunEnded == pc \in {"done", "raised"} /\ in_run

\* C20: when a block fails after some of its compositions completed, the
\* artifacts of those compositions stay in block_artifacts for the rest of
\* the run and are present in the manifest written for that run.
C20_ArtifactsOfFailedBlockKept ==
    \A b \in failed_blocks :
        /\ \A i \in DOMAIN events :
              (events[i][1] = "artifact" /\ events[i][2] = b)
              => \E j \in DOMAIN block_artifacts[b] :
                    /\ block_artifacts[b][j].composition_idx = events[i][3]
                    /\ block_artifacts[b][j].k = events[i][4]
        /\ (RunEnded /\ output_path /\ block_artifacts[b] # <<>>)
           => /\ manifest # <<>>
              /\ b \in DOMAIN manifest[1].blocks
              /\ \A j \in DOMAIN block_artifacts[b] :
                    \E k \in DOMAIN manifest[1].blocks[b].artifacts :
                       /\ manifest[1].blocks[b].artifacts[k].composition_idx
                            = block_artifacts[b][j].composition_idx
                       /\ manifest[1].blocks[b].artifacts[k].k = block_artifacts[b][j].k

\* C21: a file or the manifest that cannot be written during the flush of a
\* completed block does not abort the run: execute() is left by an exception
\* only when the manifest cannot be serialized, never because of the write,
\* and the remaining queue entries are processed
C21_WriteFailureDoesNotAbortTheRun ==
    pc = "raised" => ~Serializable(Cur)

\* the last execute_hook call of the composition ended at a script whose
\* result has status error: that script's position in its chain
HookCalled == hook_run.status \in {"failed", "raised", "done"} \/ hook_run.stage > 1
LastHook ==
    Stages[IF hook_run.status \in {"failed", "raised"} THEN hook_run.stage ELSE hook_run.stage - 1]
LastChain == IF LastHook \in DOMAIN hooks_config THEN hooks_config[LastHook] ELSE <<>>
ErrorKinds == {"error", "bare_error", "raise"}
FailingScripts == {i \in DOMAIN LastChain : LastChain[i] \in ErrorKinds}
FirstFailing == CHOOSE i \in FailingScripts : \A k \in FailingScripts : i <= k
ChainCalls(name) == SelectSeq(hook_run.last.calls, LAMBDA c : c.hook = name)

\* C22: when a script of a hook chain returns status error, execute_hook
\* runs no later script of that chain, invokes every script registered under
\* the error hook (once each, in order) and returns that script's HookResult;
\* what the error scripts do changes nothing of this
C22_ErrorStopsChainRunsErrorHooks ==
    (HookCalled /\ FailingScripts # {}) =>
        /\ ~hook_run.last.raised
        /\ hook_run.last.result = ScriptResult(LastChain[FirstFailing], LastHook, FirstFailing)
        /\ Len(ChainCalls(LastHook)) = FirstFailing
        /\ Len(ChainCalls("error")) = Len(hooks_config["error"])
        /\ \A j \in DOMAIN ChainCalls("error") : ChainCalls("error")[j].i = j

\* the keys scripts have set in place on the dict they were called with
IsMutKey(k) == k[1] = "mut"

\* C23: a key a script sets in place on its context argument is seen by no
\* later script of the same hook, by no later stage and not in the
\* executor's composition context
C23_InPlaceMutationStaysLocal ==
    HookCalled =>
        /\ \A j \in DOMAIN hook_run.calls :
              hook_run.calls[j].hook # "error" =>
                  \A k \in DOMAIN hook_run.calls[j].seen : ~IsMutKey(k)
        /\ \A k \in DOMAIN hook_run.ctx : ~IsMutKey(k)

\* C30: for every script result with status error, also one that carries no
\* error object, execute_hook returns that HookResult and does not raise, so
\* that the executor marks the block failed
C30_ErrorResultReturnedNotRaised ==
    (HookCalled /\ FailingScripts # {}) =>
        /\ ~hook_run.last.raised
        /\ hook_run.status = "failed"

\* C24: a stop request for job J whose lookup happens while a run of J has
\* registered its executor and has not finished finds that run's executor
\* (it is not answered 'No active executor' and does not get the executor of
\* another run), and its response sets that executor's stop flag
C24_StopFindsTheRunningExecutor ==
    \A c \in DOMAIN handlers :
        (handlers[c].kind = "stop" /\ handlers[c].pc \in {"looked_up", "done"}) =>
            \A r \in handlers[c].live :
                /\ handlers[c].executor = r
                /\ handlers[c].pc = "done" => r \in stop_flags

\* C25: the original_index values on the list build_jobs returns are pairwise
\* distinct and are exactly 1..N for a list of N jobs
C25_OriginalIndexIsOneToN ==
    job_list.built =>
        /\ \A i, j \in DOMAIN job_list.jobs :
              i # j => job_list.jobs[i].original_index # job_list.jobs[j].original_index
        /\ {job_list.jobs[i].original_index : i \in DOMAIN job_list.jobs}
              = 1..Len(job_list.jobs)

\* C26: once a block's state is complete, failed or blocked it does not
\* change again; so a block that emitted block_complete is never marked
\* blocked afterwards and stats()['blocks_complete'] never decreases
C26_TerminalBlockStatesStay ==
    [][/\ \A p \in AllPaths :
             block_states[p] \in {COMPLETE, FAILED, BLOCKED} =>
                 block_states'[p] = block_states[p]
       /\ Cardinality({p \in AllPaths : block_states'[p] = COMPLETE})
             >= Cardinality({p \in AllPaths : block_states[p] = COMPLETE})]_vars

\* an artifact carrying content_bytes
BytesShape ==
    [mod_id |-> Absent, content |-> "absent", preview |-> "absent", binary |-> TRUE]

\* runs over job lists with any number of records per block: the child "0.0"
\* has k job records whatever the number n of its parent "0" (the queue
\* builder gives each parent composition k div n of them), generate hooks
\* return no artifact, text artifacts or artifacts with content_bytes, and
\* the executor runs with a job directory (under EventStream) or without
InitTables ==
    /\ blocks \in {MkTable(n, k, 1, {}) : n \in 1..MaxComp, k \in 1..MaxChild}
    /\ failing \in {{}} \cup {{t} : t \in FailPoints(blocks)}
    /\ arts_per_comp \in 0..MaxArts
    /\ art_shape \in IF arts_per_comp = 0
                     THEN {[i \in 0..(MaxChild - 1) |-> TextShape]}
                     ELSE {[i \in 0..(MaxChild - 1) |-> sh] : sh \in {TextShape, BytesShape}}
    /\ run_output_path \in BOOLEAN
    /\ unwritable = {}
    /\ InitExecutor
    /\ AsideIdle

SpecTables == InitTables /\ [][Next]_vars

\* the number of job records the executor was constructed with: the block
\* table counts one composition per job record of the block
JobRecords ==
    blocks[P0].compositions + blocks[P00].compositions + blocks[P1].compositions

\* C27: whenever execute() ends with state complete, every block of the
\* block table has state complete and completed_compositions is the number
\* of job records given to the executor
C27_CompleteMeansEverythingRan ==
    (pc = "done" /\ state = COMPLETE)
    => /\ \A p \in AllPaths : block_states[p] = COMPLETE
       /\ completed_compositions = JobRecords

\* the composition at the cursor is executing: its context is built and it
\* is at one of its hooks or between them
Executing ==
    pc \in {"node_start", "resolve", "pre", "generate", "post", "after_stages", "node_end"}

\* C28: while a composition with a parent_key executes, the parent
\* composition named by the key has completed successfully (it emitted
\* composition_complete and its stored combined result is a success), and
\* parent_result in the context is that stored result, neither absent nor a
\* failure
C28_ParentResultIsTheParentsSuccess ==
    (Executing /\ Entry(Cur).parent_key # None)
    => LET parent_key == Entry(Cur).parent_key
       IN  /\ Count(events, <<"composition_complete", parent_key[1], parent_key[2]>>) >= 1
           /\ parent_key \in DOMAIN variation_results
           /\ variation_results[parent_key] = "success"
           /\ ctx.parent_result = variation_results[parent_key]

\* C28 witness: after a stop and a resume, the generate hook of a child
\* composition under the parent's second composition runs with the parent's
\* success as parent_result
C28_Witness ==
    /\ pc = "generate"
    /\ Entry(Cur).parent_key # None
    /\ Entry(Cur).parent_key[2] = 1
    /\ stop_log # <<>>
    /\ state = RUNNING
    /\ ctx.parent_result = "success"

\* C29: execute() always terminates.  Every step leaves queue_position alone
\* or advances it by one, and every step of the loop body that returns to
\* the head of the loop has advanced it by one; queue_position never exceeds the queue length;
\* execute() does not end by an exception; and unless stop() is requested,
\* execute() returns with queue_position equal to the queue length.
C29_ExecuteTerminates ==
    /\ [][/\ queue_position' \in {queue_position, queue_position + 1}
          /\ (~Outside /\ pc' = "loop" /\ stop_log' = stop_log)
                => queue_position' = queue_position + 1]_vars
    /\ [](queue_position <= Len(queue))
    /\ [](pc # "raised")
    /\ <>(stop_log # <<>> \/ (pc = "done" /\ queue_position = Len(queue)))

====
